---------------------------- MODULE Spec2Model ----------------------------
(***************************************************************************)
(* Model of analyzing/CH_formation.py: the XYZ frame reader, the           *)
(* monitor.out signal reader, the interval segmenter and the               *)
(* per-trajectory analysis ch_intervals_for_traj.                          *)
(*                                                                         *)
(* Numbers.  Every real quantity (coordinate, distance, time, electron     *)
(* count) is an integer number of tenths, so R_CUTOFF = 2.0 is 20,         *)
(* NE_THRESHOLD = 9.5 is 95 and TRAJ_DT_FS = 0.5 is 5.  Frame indices and  *)
(* atom indices are the 0-based Python indices.  An optional value (None   *)
(* or x) is the sequence << >> or <<x>>.                                   *)
(*                                                                         *)
(* Text.  A line of a file is the sequence of its whitespace-separated     *)
(* tokens (what str.split() returns); the blank line is << >>.  A token is *)
(* a record [k, n, s]:                                                     *)
(*    k = "digits"  only decimal digits: str.isdigit() holds, int() is n   *)
(*    k = "float"   float() parses it, to n tenths, but isdigit() fails    *)
(*    k = "word"    float() raises ValueError; s is its text               *)
(***************************************************************************)
EXTENDS Integers, Sequences, FiniteSets, TLC

VARIABLES traj_file, monitor_file, args, pc, ret, fh_pos, yielded

vars == <<traj_file, monitor_file, args, pc, ret, fh_pos, yielded>>

(* ------------------------------ constants ------------------------------ *)

R_CUTOFF == 20

MIN_LEN_FRAMES == 1

NE_THRESHOLD == 95

TRAJ_DT_FS == 5

(* ------------------------------- tokens -------------------------------- *)

D(n) == [k |-> "digits", n |-> n, s |-> ""]

F(n) == [k |-> "float", n |-> n, s |-> ""]

W(s) == [k |-> "word", n |-> 0, s |-> s]

(* line.strip().isdigit(): one token, made of digits only *)
IsDigitLine(line) == Len(line) = 1 /\ line[1].k = "digits"

(* float(tok) succeeds *)
IsFloat(tok) == tok.k \in {"digits", "float"}

(* float(tok), in tenths: the digits "2" read as 2.0 *)
Float(tok) == IF tok.k = "digits" THEN 10 * tok.n ELSE tok.n

(* mutant: the label compared as written *)
Upper_AsWritten(tok) == IF tok.k # "word" THEN "#" ELSE tok.s

(* el.upper() of an element token; a numeric token holds no letter *)
Upper(tok) ==
  IF tok.k # "word" THEN "#"
  ELSE IF tok.s = "c" THEN "C"
  ELSE IF tok.s = "h" THEN "H"
  ELSE tok.s

(* seq[:n] *)
Take(seq, n) == SubSeq(seq, 1, IF Len(seq) < n THEN Len(seq) ELSE n)

(* ---------------------------- frames_from_xyz --------------------------- *)

(* fh.readline().split() at 1-based line p: at end of file readline()      *)
(* returns '' and the split is empty, like that of a blank line            *)
ReadSplit(lines, p) == IF p > Len(lines) THEN << >> ELSE lines[p]

(* el, *xyz = toks ; (el, tuple(map(float, xyz))) for toks = split()[:4]   *)
ParseAtom(toks) ==
  IF Len(toks) = 0 THEN [err |-> "ValueError", atom |-> << >>]
  ELSE IF \E j \in 2..Len(toks) : ~IsFloat(toks[j])
       THEN [err |-> "ValueError", atom |-> << >>]
  ELSE [err |-> "none",
        atom |-> [el |-> toks[1],
                  xyz |-> [j \in 1..(Len(toks) - 1) |-> Float(toks[j + 1])]]]

(* the for-loop over range(nat): atom lines p, p+1, ..., left to right;   *)
(* at is the line whose unpacking or conversion raised                     *)
RECURSIVE ReadAtoms(_, _, _, _)
ReadAtoms(lines, p, nat, frame) ==
  IF nat = 0 THEN [err |-> "none", frame |-> frame, at |-> 0]
  ELSE LET a == ParseAtom(Take(ReadSplit(lines, p), 4)) IN
       IF a.err # "none" THEN [err |-> a.err, frame |-> frame, at |-> p]
       ELSE ReadAtoms(lines, p + 1, nat - 1, Append(frame, a.atom))

(* One resumption of the generator with the file handle before line p:     *)
(* skip lines until an atom count, then read the comment and nat atoms.    *)
(*   kind "yield": a frame, and the handle's new position                  *)
(*   kind "stop" : readline() returned '' where a count was looked for     *)
(*   kind "raise": an exception left the generator, raised at line pos     *)
RECURSIVE NextFrame(_, _)
NextFrame(lines, p) ==
  IF p > Len(lines) THEN [kind |-> "stop", frame |-> << >>, pos |-> p, err |-> "none"]
  ELSE IF ~IsDigitLine(lines[p]) THEN NextFrame(lines, p + 1)
  ELSE LET nat == lines[p][1].n
           r == ReadAtoms(lines, p + 2, nat, << >>)
       IN IF r.err # "none"
          THEN [kind |-> "raise", frame |-> << >>, pos |-> r.at, err |-> r.err]
          ELSE [kind |-> "yield", frame |-> r.frame, pos |-> p + 2 + nat, err |-> "none"]

(* list(frames_from_xyz(fname)) with the file handle before line p: the    *)
(* frames, or the frames yielded before the exception and the exception    *)
RECURSIVE frames_from_xyz(_, _, _)
frames_from_xyz(lines, p, frames) ==
  LET nx == NextFrame(lines, p) IN
  IF nx.kind = "stop" THEN [err |-> "none", frames |-> frames]
  ELSE IF nx.kind = "raise" THEN [err |-> nx.err, frames |-> frames]
  ELSE frames_from_xyz(lines, nx.pos, Append(frames, nx.frame))


(* --------------------------- load_ne_sequence --------------------------- *)

(* word texts that contain the substring INFOLINE *)
MarkerWords == {"INFOLINE:", "xINFOLINEx"}

(* "INFOLINE" in line *)
HasMarker(line) ==
  \E j \in 1..Len(line) : line[j].k = "word" /\ line[j].s \in MarkerWords

(* floats: the tokens of the line float() parses, in order *)
RECURSIVE FloatsOf(_)
FloatsOf(line) ==
  IF line = << >> THEN << >>
  ELSE IF IsFloat(Head(line)) THEN <<Float(Head(line))>> \o FloatsOf(Tail(line))
  ELSE FloatsOf(Tail(line))

(* the body of the for-loop over the lines of the file, from line p on *)
RECURSIVE ScanMonitor(_, _, _, _)
ScanMonitor(lines, p, times, nes) ==
  IF p > Len(lines) THEN [err |-> "none", times |-> times, nes |-> nes]
  ELSE IF ~HasMarker(lines[p]) THEN ScanMonitor(lines, p + 1, times, nes)
  ELSE LET floats == FloatsOf(lines[p]) IN
       IF Len(floats) >= 2
       THEN ScanMonitor(lines, p + 1, Append(times, floats[1]), Append(nes, floats[2]))
       ELSE ScanMonitor(lines, p + 1, times, nes)

(* load_ne_sequence(monitor_path): open() raises when there is no file *)
load_ne_sequence(file) ==
  IF ~file.exists
  THEN [err |-> "FileNotFoundError", times |-> << >>, nes |-> << >>]
  ELSE ScanMonitor(file.lines, 1, << >>, << >>)

(* ----------------------------- find_intervals --------------------------- *)

(* mutant: a value equal to the cutoff does not count *)
Within_Strict(r, cutoff) == r < cutoff

(* r <= cutoff *)
Within(r, cutoff) == r <= cutoff

(* mutant: the length of a run counted without its last index *)
LongEnough_OffByOne(start, end, min_len) == end - start >= min_len

(* end - start + 1 >= min_len_frames *)
LongEnough(start, end, min_len) == end - start + 1 >= min_len

(* mutant: the closing index itself ends the run *)
RunEnd_Incl(i) == i

(* end = i - 1, the last index of a run closed by the value at index i *)
RunEnd(i) == i - 1

(* intervals.append((start, end)) under the length rule *)
Emit(intervals, start, end, min_len) ==
  IF LongEnough(start, end, min_len) THEN Append(intervals, <<start, end>>)
  ELSE intervals

(* the loop over enumerate(seq) from 0-based index i on, then the closing  *)
(* of a run still open at the end; start is << >> (None) or <<index>>      *)
RECURSIVE ScanSeq(_, _, _, _, _, _)
ScanSeq(seq, i, start, intervals, cutoff, min_len) ==
  IF i >= Len(seq)
  THEN IF start # << >>
       THEN Emit(intervals, start[1], Len(seq) - 1, min_len)
       ELSE intervals
  ELSE IF Within(seq[i + 1], cutoff)
       THEN ScanSeq(seq, i + 1, IF start = << >> THEN <<i>> ELSE start,
                    intervals, cutoff, min_len)
       ELSE IF start # << >>
            THEN ScanSeq(seq, i + 1, << >>,
                         Emit(intervals, start[1], RunEnd(i), min_len),
                         cutoff, min_len)
            ELSE ScanSeq(seq, i + 1, << >>, intervals, cutoff, min_len)

find_intervals(seq, cutoff, min_len) == ScanSeq(seq, 0, << >>, << >>, cutoff, min_len)

(* -------------------------- ch_intervals_for_traj ----------------------- *)

(* dist2(a, b): the squared distance of two points *)
dist2(a, b) ==
  (a[1] - b[1]) * (a[1] - b[1]) + (a[2] - b[2]) * (a[2] - b[2])
    + (a[3] - b[3]) * (a[3] - b[3])

(* math.sqrt(d), rounded up to a whole tenth.  A distance is only ever     *)
(* compared with a cutoff that is a whole number of tenths, and for such a *)
(* cutoff  sqrt(d) <= cutoff  iff  ceil(sqrt(d)) <= cutoff.                *)
RECURSIVE CeilSqrtFrom(_, _)
CeilSqrtFrom(d, r) == IF r * r >= d THEN r ELSE CeilSqrtFrom(d, r + 1)

Sqrt(d) == CeilSqrtFrom(d, 0)

(* mutant: a sample equal to the threshold qualifies *)
RECURSIVE FirstBelow_OrEqual(_, _, _, _)
FirstBelow_OrEqual(times, nes, ne_threshold, p) ==
  IF p > Len(times) \/ p > Len(nes) THEN << >>
  ELSE IF nes[p] <= ne_threshold THEN <<times[p]>>
  ELSE FirstBelow_OrEqual(times, nes, ne_threshold, p + 1)

(* the first (t_fs, ne) of zip(times, nes) with ne < ne_threshold: <<t>>,  *)
(* or << >> for None                                                       *)
RECURSIVE FirstBelow(_, _, _, _)
FirstBelow(times, nes, ne_threshold, p) ==
  IF p > Len(times) \/ p > Len(nes) THEN << >>
  ELSE IF nes[p] < ne_threshold THEN <<times[p]>>
  ELSE FirstBelow(times, nes, ne_threshold, p + 1)

(* monitor_path is not None and monitor_path.is_file() *)
UsesMonitor(monitor_path, file) == monitor_path # "None" /\ file.exists

(* t_ion_fs after the block that reads the Ne sequence *)
IonTime(monitor_path, file, ne_threshold) ==
  IF UsesMonitor(monitor_path, file)
  THEN LET ne == load_ne_sequence(file) IN FirstBelow(ne.times, ne.nes, ne_threshold, 1)
  ELSE << >>

(* c_idx / h_idx: the 0-based indices of frames[0] whose el.upper() is sym *)
ElemIdx(frames, sym) ==
  {i \in 0..(Len(frames[1]) - 1) : Upper(frames[1][i + 1].el) = sym}

(* coords[ci], coords[hi] or an index into a coordinate tuple raises        *)
(* IndexError in some frame                                                 *)
PairRaises(frames, ci, hi) ==
  \E f \in 1..Len(frames) :
    \/ Len(frames[f]) < ci + 1
    \/ Len(frames[f]) < hi + 1
    \/ Len(frames[f][ci + 1].xyz) < 3
    \/ Len(frames[f][hi + 1].xyz) < 3

(* seq: the distance of the pair in every frame *)
PairSeq(frames, ci, hi) ==
  [f \in 1..Len(frames) |-> Sqrt(dist2(frames[f][ci + 1].xyz, frames[f][hi + 1].xyz))]

(* mutant: the first frame at one time step *)
TimeGeom_FromOne(i, traj_dt_fs) == (i + 1) * traj_dt_fs

(* times_geom_fs[i] = i * traj_dt_fs *)
TimeGeom(i, traj_dt_fs) == i * traj_dt_fs

(* (start_idx, end_idx, t_start_fs, t_end_fs, duration_fs) of a raw interval *)
Enrich(iv, traj_dt_fs) ==
  LET t_start_fs == TimeGeom(iv[1], traj_dt_fs)
      t_end_fs == TimeGeom(iv[2], traj_dt_fs)
  IN <<iv[1], iv[2], t_start_fs, t_end_fs, t_end_fs - t_start_fs>>

(* the pair_intervals dictionary built by the loop over c_idx x h_idx:     *)
(* a pair without raw intervals gets no key                                *)
PairIntervals(frames, r_cut, min_len, traj_dt_fs) ==
  LET raw(ci, hi) == find_intervals(PairSeq(frames, ci, hi), r_cut, min_len)
      keys == {k \in ElemIdx(frames, "C") \X ElemIdx(frames, "H") :
                 raw(k[1], k[2]) # << >>}
  IN [k \in keys |->
        [j \in 1..Len(raw(k[1], k[2])) |-> Enrich(raw(k[1], k[2])[j], traj_dt_fs)]]

(* the empty dictionary *)
EmptyDict == [k \in {} |-> << >>]

(* the way ch_intervals_for_traj leaves: an exception out of the frame     *)
(* reader, the return for no frames, the return for no carbon or no        *)
(* hydrogen, an IndexError out of the pair loop, or the full report        *)
ChPath(lines) ==
  LET fr == frames_from_xyz(lines, 1, << >>) IN
  IF fr.err # "none" THEN "raise_read"
  ELSE IF Len(fr.frames) = 0 THEN "empty"
  ELSE IF ElemIdx(fr.frames, "C") = {} \/ ElemIdx(fr.frames, "H") = {} THEN "no_pairs"
  ELSE IF \E ci \in ElemIdx(fr.frames, "C"), hi \in ElemIdx(fr.frames, "H") :
            PairRaises(fr.frames, ci, hi)
       THEN "raise_index"
  ELSE "report"

(* ch_intervals_for_traj(traj_path, monitor_path, r_cut, min_len_frames,   *)
(* ne_threshold, traj_dt_fs): the returned dictionary, or the exception    *)
ch_intervals_for_traj(lines, file, a) ==
  LET fr == frames_from_xyz(lines, 1, << >>)
      n_frames == Len(fr.frames)
      t_ion_fs == IonTime(a.monitor_path, file, a.ne_threshold)
      path == ChPath(lines)
      raised(exc) == [exc |-> exc, pair_intervals |-> EmptyDict,
                      t_ion_fs |-> << >>, n_frames |-> 0]
  IN CASE path = "raise_read" -> raised(fr.err)
       [] path = "empty" ->
            [exc |-> "none", pair_intervals |-> EmptyDict,
             t_ion_fs |-> << >>, n_frames |-> 0]
       [] path = "no_pairs" ->
            [exc |-> "none", pair_intervals |-> EmptyDict,
             t_ion_fs |-> t_ion_fs, n_frames |-> n_frames]
       [] path = "raise_index" -> raised("IndexError")
       [] path = "report" ->
            [exc |-> "none",
             pair_intervals |->
               PairIntervals(fr.frames, a.r_cut, a.min_len_frames, a.traj_dt_fs),
             t_ion_fs |-> t_ion_fs, n_frames |-> n_frames]

(* ------------------------------- bounds --------------------------------- *)

(* frames of a generated trajectory *)
MaxFrames == 2

(* lines of an arbitrary coordinate file *)
MaxLines == 5

(* lines of a monitor file *)
MaxMonLines == 3

(* length of a distance sequence handed to find_intervals *)
MaxSeqLen == 5

(* largest minimum run length *)
MaxMinLen == 3

(* ------------------------------- inputs --------------------------------- *)

(* all sequences over S of length at most n *)
SeqsUpTo(S, n) == UNION {[1..m -> S] : m \in 0..n}

(* atom positions: |P0 P1| = 2.0 exactly, |P1 P2| = 1.3, |P0 P2| = 2.02... *)
Points == {<<0, 0, 0>>, <<0, 12, 16>>, <<12, 12, 11>>}

(* element labels of the atoms of a trajectory, in atom order *)
Compositions ==
  {<< >>, <<"C">>, <<"O", "h">>, <<"C", "h">>, <<"h", "c">>, <<"C", "H", "h">>}

(* a trajectory: the labels, and per frame the position of every atom *)
Trajectories ==
  UNION {[labels : {c}, frames : SeqsUpTo([1..Len(c) -> Points], MaxFrames)]
           : c \in Compositions}

(* the distance example: C at rest, H at 1.8, 1.9, 2.1, 1.7, 1.6 *)
ExampleTraj ==
  [labels |-> <<"C", "H">>,
   frames |-> [f \in 1..5 |->
                 <<<<0, 0, 0>>, <<<<18, 19, 21, 17, 16>>[f], 0, 0>>>>]]

(* the text of one frame: count line, comment line, one line per atom *)
XyzFrame(labels, frame) ==
  <<<<D(Len(labels))>>, <<W("frame")>>>> \o
  [i \in 1..Len(labels) |->
     <<W(labels[i]), F(frame[i][1]), F(frame[i][2]), F(frame[i][3])>>]

RECURSIVE XyzText(_, _)
XyzText(labels, frames) ==
  IF frames = << >> THEN << >>
  ELSE XyzFrame(labels, Head(frames)) \o XyzText(labels, Tail(frames))

XyzFile(tr) == XyzText(tr.labels, tr.frames)

(* the file cut before its last line, and the file whose last atom line    *)
(* lacks its z coordinate                                                  *)
Truncated(lines) == SubSeq(lines, 1, Len(lines) - 1)

ShortAtom(lines) == [lines EXCEPT ![Len(lines)] = Take(@, 3)]

DefectFiles ==
  UNION {{Truncated(XyzFile(tr)), ShortAtom(XyzFile(tr))}
           : tr \in {t \in Trajectories : t.labels = <<"C", "h">> /\ Len(t.frames) = 1}}

TrajFiles == {XyzFile(tr) : tr \in Trajectories \cup {ExampleTraj}} \cup DefectFiles

(* lines of an arbitrary coordinate file: two atom counts, a blank line,   *)
(* an atom line with a trailing token, one with two coordinates, and one   *)
(* with a coordinate float() rejects                                       *)
XyzLines ==
  {<<D(1)>>, <<D(2)>>, << >>,
   <<W("C"), F(0), F(12), F(16), W("extra")>>,
   <<W("h"), F(0), F(0)>>,
   <<W("C"), W("x"), F(0), F(0)>>}

(* lines of a monitor file: samples (time, Ne, ignored third number), a    *)
(* marker line with one number only, and a line without the marker         *)
Sample(t, ne) == <<W("INFOLINE:"), t, W("Ne="), ne, F(-5970)>>

MonLines ==
  {Sample(D(0), F(100)), Sample(D(100), F(96)), Sample(D(200), F(94)),
   Sample(F(505), F(95)), Sample(D(150), D(9)),
   <<W("xINFOLINEx"), F(3000), W("n/a")>>,
   <<W("t="), F(50), F(10)>>}

(* the ionization example: (0, 10.0), (100, 9.6), (200, 9.4) *)
ExampleMonitor ==
  <<Sample(D(0), F(100)), Sample(D(100), F(96)), Sample(D(200), F(94))>>

NoFile == [exists |-> FALSE, lines |-> << >>]

MonitorFiles == {NoFile} \cup [exists : {TRUE}, lines : SeqsUpTo(MonLines, MaxMonLines)]

NoRet == [exc |-> "pending"]

(* ------------------- ch_intervals_for_traj, one call -------------------- *)

ChArgs(paths, min_lens, steps) ==
  [fn : {"ch_intervals_for_traj"}, monitor_path : paths, r_cut : {R_CUTOFF},
   min_len_frames : min_lens, ne_threshold : {NE_THRESHOLD}, traj_dt_fs : steps]

(* trajectories varied, with the example monitor file *)
Init ==
  /\ traj_file \in TrajFiles
  /\ monitor_file = [exists |-> TRUE, lines |-> ExampleMonitor]
  /\ args \in ChArgs({"monitor.out"}, {MIN_LEN_FRAMES, 2}, {TRAJ_DT_FS, -TRAJ_DT_FS})
  /\ pc = "call"
  /\ ret = NoRet
  /\ fh_pos = 1
  /\ yielded = << >>

(* a few trajectories that take each way out of the call *)
IonTrajFiles ==
  {<< >>,
   XyzFile([labels |-> <<"C", "h">>, frames |-> <<<<<<0, 0, 0>>, <<0, 12, 16>>>>>>]),
   XyzFile([labels |-> <<"O", "h">>, frames |-> <<<<<<0, 0, 0>>, <<0, 12, 16>>>>>>]),
   Truncated(XyzFile([labels |-> <<"C">>, frames |-> <<<<<<0, 0, 0>>>>>>])),
   ShortAtom(XyzFile([labels |-> <<"C", "h">>, frames |-> <<<<<<0, 0, 0>>, <<0, 12, 16>>>>>>]))}

(* monitor files varied, with or without a monitor path *)
InitIon ==
  /\ traj_file \in IonTrajFiles
  /\ monitor_file \in MonitorFiles
  /\ args \in ChArgs({"None", "monitor.out"}, {MIN_LEN_FRAMES}, {TRAJ_DT_FS})
  /\ pc = "call"
  /\ ret = NoRet
  /\ fh_pos = 1
  /\ yielded = << >>

(* the call ends: it returns its dictionary or lets the exception out;    *)
(* yielded holds the frames the reader has produced for it                 *)
ChEnds(to) ==
  /\ yielded' = frames_from_xyz(traj_file, 1, << >>).frames
  /\ ret' = ch_intervals_for_traj(traj_file, monitor_file, args)
  /\ pc' = to
  /\ UNCHANGED <<traj_file, monitor_file, args, fh_pos>>

(* list(frames_from_xyz(traj_path)) raises *)
ChReaderRaises ==
  /\ pc = "call"
  /\ ChPath(traj_file) = "raise_read"
  /\ ChEnds("raised")

(* if n_frames == 0: return *)
ChReturnsEmpty ==
  /\ pc = "call"
  /\ ChPath(traj_file) = "empty"
  /\ ChEnds("returned")

(* if not c_idx or not h_idx: return *)
ChReturnsNoPairs ==
  /\ pc = "call"
  /\ ChPath(traj_file) = "no_pairs"
  /\ ChEnds("returned")

(* coords[ci] or dist2 raises IndexError *)
ChPairLoopRaises ==
  /\ pc = "call"
  /\ ChPath(traj_file) = "raise_index"
  /\ ChEnds("raised")

(* the final return *)
ChReturnsReport ==
  /\ pc = "call"
  /\ ChPath(traj_file) = "report"
  /\ ChEnds("returned")

Next ==
  \/ ChReaderRaises
  \/ ChReturnsEmpty
  \/ ChReturnsNoPairs
  \/ ChPairLoopRaises
  \/ ChReturnsReport

Spec == Init /\ [][Next]_vars

SpecIon == InitIon /\ [][Next]_vars

(* ----------------------- frames_from_xyz, resumed ----------------------- *)

InitFrames ==
  /\ traj_file \in SeqsUpTo(XyzLines, MaxLines)
  /\ monitor_file = NoFile
  /\ args = [fn |-> "frames_from_xyz"]
  /\ pc = "suspended"
  /\ ret = NoRet
  /\ fh_pos = 1
  /\ yielded = << >>

(* the generator runs to its yield *)
GenYields ==
  /\ pc = "suspended"
  /\ LET nx == NextFrame(traj_file, fh_pos) IN
       /\ nx.kind = "yield"
       /\ yielded' = Append(yielded, nx.frame)
       /\ fh_pos' = nx.pos
  /\ UNCHANGED <<traj_file, monitor_file, args, pc, ret>>

(* readline() returns '' where an atom count is looked for: break *)
GenStops ==
  /\ pc = "suspended"
  /\ LET nx == NextFrame(traj_file, fh_pos) IN
       /\ nx.kind = "stop"
       /\ fh_pos' = nx.pos
  /\ pc' = "exhausted"
  /\ ret' = [exc |-> "none", at |-> 0]
  /\ UNCHANGED <<traj_file, monitor_file, args, yielded>>

(* the unpacking or float() of an atom line raises ValueError *)
GenRaises ==
  /\ pc = "suspended"
  /\ LET nx == NextFrame(traj_file, fh_pos) IN
       /\ nx.kind = "raise"
       /\ ret' = [exc |-> nx.err, at |-> nx.pos]
  /\ pc' = "raised"
  /\ UNCHANGED <<traj_file, monitor_file, args, fh_pos, yielded>>

NextFrames == GenYields \/ GenStops \/ GenRaises

SpecFrames == InitFrames /\ [][NextFrames]_vars

(* --------------------------- load_ne_sequence --------------------------- *)

InitSignal ==
  /\ traj_file = << >>
  /\ monitor_file \in MonitorFiles
  /\ args = [fn |-> "load_ne_sequence", monitor_path |-> "monitor.out"]
  /\ pc = "call"
  /\ ret = [exc |-> "pending", times |-> << >>, nes |-> << >>]
  /\ fh_pos = 1
  /\ yielded = << >>

(* return times, nes *)
LoadReturns ==
  /\ pc = "call"
  /\ LET r == load_ne_sequence(monitor_file) IN
       /\ r.err = "none"
       /\ ret' = [exc |-> "none", times |-> r.times, nes |-> r.nes]
  /\ pc' = "returned"
  /\ UNCHANGED <<traj_file, monitor_file, args, fh_pos, yielded>>

(* open(monitor_path) raises *)
LoadRaises ==
  /\ pc = "call"
  /\ LET r == load_ne_sequence(monitor_file) IN
       /\ r.err # "none"
       /\ ret' = [exc |-> r.err, times |-> << >>, nes |-> << >>]
  /\ pc' = "raised"
  /\ UNCHANGED <<traj_file, monitor_file, args, fh_pos, yielded>>

NextSignal == LoadReturns \/ LoadRaises

SpecSignal == InitSignal /\ [][NextSignal]_vars

(* ----------------------------- find_intervals --------------------------- *)

(* distances around the cutoffs 2.0 and 1.7 *)
Dists == {17, 20, 21}

Cutoffs == {R_CUTOFF, 17}

InitSeg ==
  /\ traj_file = << >>
  /\ monitor_file = NoFile
  /\ args \in [fn : {"find_intervals"}, seq : SeqsUpTo(Dists, MaxSeqLen),
               cutoff : Cutoffs, min_len_frames : 0..MaxMinLen]
  /\ pc = "call"
  /\ ret = << >>
  /\ fh_pos = 1
  /\ yielded = << >>

(* return intervals *)
SegReturns ==
  /\ pc = "call"
  /\ ret' = find_intervals(args.seq, args.cutoff, args.min_len_frames)
  /\ pc' = "returned"
  /\ UNCHANGED <<traj_file, monitor_file, args, fh_pos, yielded>>

NextSeg == SegReturns

SpecSeg == InitSeg /\ [][NextSeg]_vars

(* ======================= find_intervals: C1 - C3 ======================== *)

(* the value at 0-based index i of the sequence handed to find_intervals *)
SeqAt(i) == args.seq[i + 1]

LastIdx == Len(args.seq) - 1

(* s..e is a maximal run of values at or below the cutoff *)
MaximalRun(s, e) ==
  /\ 0 <= s /\ s <= e /\ e <= LastIdx
  /\ \A i \in s..e : SeqAt(i) <= args.cutoff
  /\ s > 0 => SeqAt(s - 1) > args.cutoff
  /\ e < LastIdx => SeqAt(e + 1) > args.cutoff

(* C1: every returned pair (start, end) lies within the sequence with      *)
(* start <= end, spans at least min_len_frames indices, and covers only    *)
(* values at or below the cutoff.                                          *)
C1_IntervalsValid ==
  pc = "returned" =>
    \A j \in 1..Len(ret) :
      LET s == ret[j][1]
          e == ret[j][2]
      IN /\ 0 <= s /\ s <= e /\ e <= LastIdx
         /\ e - s + 1 >= args.min_len_frames
         /\ \A i \in s..e : SeqAt(i) <= args.cutoff

(* two intervals returned under a minimum run length of 2, the first one  *)
(* closed by a value above the cutoff                                      *)
C1_Witness ==
  /\ pc = "returned"
  /\ args.min_len_frames = 2
  /\ Len(ret) = 2
  /\ ret[1][2] - ret[1][1] + 1 = 2

(* every maximal run of at least min_len_frames indices is returned *)
NoRunOmitted ==
  \A s \in 0..LastIdx, e \in 0..LastIdx :
    (MaximalRun(s, e) /\ e - s + 1 >= args.min_len_frames) =>
      \E j \in 1..Len(ret) : ret[j] = <<s, e>>

AllBelow == \A i \in 0..LastIdx : SeqAt(i) <= args.cutoff

(* C2 as stated: no qualifying run is omitted, a non-empty sequence        *)
(* entirely at or below the cutoff yields the single interval              *)
(* (0, len-1), and the empty sequence yields the empty result.             *)
C2_AsStated ==
  pc = "returned" =>
    /\ NoRunOmitted
    /\ (args.seq # << >> /\ AllBelow) => ret = <<<<0, LastIdx>>>>
    /\ args.seq = << >> => ret = << >>

(* C2 amended: no qualifying run is omitted, also not the run still open   *)
(* at the end of the sequence; a non-empty sequence entirely at or below   *)
(* the cutoff yields the single interval (0, len-1) when its length is at  *)
(* least min_len_frames and the empty result otherwise; the empty sequence *)
(* yields the empty result.                                                *)
C2_NoRunOmitted ==
  pc = "returned" =>
    /\ NoRunOmitted
    /\ (args.seq # << >> /\ AllBelow) =>
         ret = IF Len(args.seq) >= args.min_len_frames
               THEN <<<<0, LastIdx>>>> ELSE << >>
    /\ args.seq = << >> => ret = << >>

(* a short run was filtered out and the run open at the end was returned *)
C2_Witness ==
  /\ pc = "returned"
  /\ args.min_len_frames = 2
  /\ MaximalRun(0, 0)
  /\ Len(ret) = 1
  /\ ret[1][2] = LastIdx
  /\ ret[1][1] >= 2

(* C3: the returned intervals are in strictly increasing order, neither    *)
(* overlapping nor adjacent (s2 >= e1 + 2), some value between two         *)
(* consecutive intervals exceeds the cutoff, and every interval is         *)
(* maximal: the values just before its start and just after its end,      *)
(* where they exist, exceed the cutoff.                                    *)
C3_Separated ==
  pc = "returned" =>
    /\ \A j \in 1..(Len(ret) - 1) :
         /\ ret[j + 1][1] >= ret[j][2] + 2
         /\ \E i \in (ret[j][2] + 1)..(ret[j + 1][1] - 1) : SeqAt(i) > args.cutoff
    /\ \A j \in 1..Len(ret) :
         /\ ret[j][1] > 0 => SeqAt(ret[j][1] - 1) > args.cutoff
         /\ ret[j][2] < LastIdx => SeqAt(ret[j][2] + 1) > args.cutoff

(* two intervals with a single value above the cutoff between them *)
C3_Witness ==
  /\ pc = "returned"
  /\ Len(ret) >= 2
  /\ ret[2][1] = ret[1][2] + 2
  /\ ret[1][1] > 0

(* =================== ch_intervals_for_traj: C4 - C7 ===================== *)

(* the samples of the monitor file, as load_ne_sequence returns them *)
Samples == load_ne_sequence(monitor_file)

(* the time of the first sample, in file order, strictly below the         *)
(* threshold is what ion holds; ion is None when there is no such sample   *)
IsFirstBelow(ion) ==
  \/ /\ ion = << >>
     /\ \A p \in 1..Len(Samples.nes) : Samples.nes[p] >= args.ne_threshold
  \/ \E p \in 1..Len(Samples.nes) :
       /\ ion = <<Samples.times[p]>>
       /\ Samples.nes[p] < args.ne_threshold
       /\ \A q \in 1..(p - 1) : Samples.nes[q] >= args.ne_threshold

(* C4: for a trajectory with at least one frame and an existing signal     *)
(* file, the returned ionization time is the time, as written in the file, *)
(* of the first sample in file order whose value is strictly below the     *)
(* threshold, and None when no sample is.                                  *)
C4_IonIsFirstBelow ==
  (/\ pc = "returned"
   /\ ret.n_frames >= 1
   /\ args.monitor_path # "None"
   /\ monitor_file.exists) => IsFirstBelow(ret.t_ion_fs)

(* the ionization example: samples (0, 10.0), (100, 9.6), (200, 9.4) and   *)
(* the threshold 9.5 give the time 200                                     *)
C4_Witness ==
  /\ pc = "returned"
  /\ ret.n_frames >= 1
  /\ args.monitor_path # "None"
  /\ monitor_file = [exists |-> TRUE, lines |-> ExampleMonitor]
  /\ ret.t_ion_fs = <<2000>>

(* C5 as stated: for every trajectory, one without frames included, the    *)
(* report carries the time of the first sample strictly below the          *)
(* threshold whenever a signal path is given and the file exists, and None *)
(* only when there is no such sample or no signal source.                  *)
C5_IonForEveryTrajectory ==
  pc = "returned" =>
    IF args.monitor_path # "None" /\ monitor_file.exists
    THEN IsFirstBelow(ret.t_ion_fs)
    ELSE ret.t_ion_fs = << >>

(* the frames the reader has handed to ch_intervals_for_traj *)
Frames == yielded

(* the text of the element label of atom i (0-based) of frame 0 *)
Label(i) == Frames[1][i + 1].el.s

AtomIdx == IF Frames = << >> THEN {} ELSE 0..(Len(Frames[1]) - 1)

IsCarbon(i) == Label(i) \in {"C", "c"}

IsHydrogen(i) == Label(i) \in {"H", "h"}

(* atoms c and h are within the cutoff in frame f (0-based): the squared   *)
(* distance against the squared cutoff                                     *)
Close(c, h, f) ==
  dist2(Frames[f + 1][c + 1].xyz, Frames[f + 1][h + 1].xyz) <= args.r_cut * args.r_cut

(* frames s..e are a maximal run of frames in which c and h are close *)
CloseRun(c, h, s, e) ==
  /\ 0 <= s /\ s <= e /\ e <= Len(Frames) - 1
  /\ \A f \in s..e : Close(c, h, f)
  /\ s > 0 => ~Close(c, h, s - 1)
  /\ e < Len(Frames) - 1 => ~Close(c, h, e + 1)

(* the pair has an interval: a maximal run of at least min_len_frames *)
HasInterval(c, h) ==
  \E s \in 0..(Len(Frames) - 1), e \in 0..(Len(Frames) - 1) :
    CloseRun(c, h, s, e) /\ e - s + 1 >= args.min_len_frames

(* C6: the pair-interval mapping has the key (c, h) exactly when c is a    *)
(* carbon and h a hydrogen of frame 0 (labels compared without case) and   *)
(* the pair has a qualifying interval; no key maps to an empty list; the   *)
(* mapping is empty when frame 0 has no carbon or no hydrogen or there is  *)
(* no frame, and n_frames is the number of frames, 0 included.             *)
C6_KeysAreQualifyingPairs ==
  pc = "returned" =>
    /\ ret.n_frames = Len(Frames)
    /\ DOMAIN ret.pair_intervals \subseteq AtomIdx \X AtomIdx
    /\ \A c \in AtomIdx, h \in AtomIdx :
         <<c, h>> \in DOMAIN ret.pair_intervals
           <=> (IsCarbon(c) /\ IsHydrogen(h) /\ HasInterval(c, h))
    /\ \A k \in DOMAIN ret.pair_intervals : ret.pair_intervals[k] # << >>
    /\ (Frames = << >> \/ ~\E c \in AtomIdx : IsCarbon(c)
          \/ ~\E h \in AtomIdx : IsHydrogen(h))
         => ret.pair_intervals = EmptyDict

(* of the two hydrogens of a C, H, h trajectory, the lower-case one has an *)
(* interval with the carbon and the other has none                         *)
C6_Witness ==
  /\ pc = "returned"
  /\ ret.n_frames = 2
  /\ args.min_len_frames = 2
  /\ DOMAIN ret.pair_intervals = {<<0, 2>>}
  /\ Label(1) = "H" /\ Label(2) = "h"

(* the report of the distance example: cutoff 2.0, minimum length 1, step  *)
(* 0.5, distances 1.8, 1.9, 2.1, 1.7, 1.6                                  *)
ExampleIntervals == <<<<0, 1, 0, 5, 5>>, <<3, 4, 15, 20, 5>>>>

(* C7: every interval (start_idx, end_idx, t_start, t_end, duration) of    *)
(* the report has t_start = start_idx * step, t_end = end_idx * step and   *)
(* duration = t_end - t_start; for a positive step t_start <= t_end and    *)
(* duration >= 0, and a single-frame interval has duration 0.  The         *)
(* distance example yields (0, 1) at times 0.0 and 0.5 and (3, 4) at times *)
(* 1.5 and 2.0, both of duration 0.5.                                      *)
C7_TimesFromIndices ==
  pc = "returned" =>
    /\ \A k \in DOMAIN ret.pair_intervals :
         \A j \in 1..Len(ret.pair_intervals[k]) :
           LET iv == ret.pair_intervals[k][j] IN
             /\ iv[3] = iv[1] * args.traj_dt_fs
             /\ iv[4] = iv[2] * args.traj_dt_fs
             /\ iv[5] = iv[4] - iv[3]
             /\ args.traj_dt_fs > 0 => (iv[3] <= iv[4] /\ iv[5] >= 0)
             /\ iv[1] = iv[2] => iv[5] = 0
    /\ (/\ traj_file = XyzFile(ExampleTraj)
        /\ args.r_cut = R_CUTOFF
        /\ args.min_len_frames = 1
        /\ args.traj_dt_fs = TRAJ_DT_FS)
         => (DOMAIN ret.pair_intervals = {<<0, 1>>}
             /\ ret.pair_intervals[<<0, 1>>] = ExampleIntervals)

(* the distance example has been analysed *)
C7_Witness ==
  /\ pc = "returned"
  /\ traj_file = XyzFile(ExampleTraj)
  /\ args.min_len_frames = 1
  /\ args.traj_dt_fs = TRAJ_DT_FS
  /\ ret.pair_intervals[<<0, 1>>] = ExampleIntervals

(* ======================= the readers: C8 - C10 ========================== *)

(* C8 as stated: a coordinate file that ends inside a frame, before the    *)
(* comment line and the announced atom lines have all been read, ends the  *)
(* frame reader silently: no exception leaves it from a read past the end  *)
(* of the file.                                                            *)
C8_TruncationIsSilent ==
  ~(pc = "raised" /\ ret.at > Len(traj_file))

(* C9 as stated: no atom line of the file, be it blank, short of tokens or *)
(* with a coordinate that is no number, makes the frame reader raise.      *)
C9_MalformedAtomLineAbsorbed ==
  ~(pc = "raised" /\ ret.at <= Len(traj_file))

(* the monitor file has no line with the marker *)
NoMarkerLine ==
  \A p \in 1..Len(monitor_file.lines) : ~HasMarker(monitor_file.lines[p])

(* C10 as stated: load_ne_sequence never raises; for a path without a file *)
(* or a file without marker lines it returns two empty sequences, and the  *)
(* two sequences it returns always have the same length.                   *)
C10_SignalReaderNeverRaises ==
  pc # "call" =>
    /\ pc = "returned"
    /\ Len(ret.times) = Len(ret.nes)
    /\ (~monitor_file.exists \/ NoMarkerLine) => (ret.times = << >> /\ ret.nes = << >>)

=============================================================================
